---- MODULE Spec2Model ----
(***************************************************************************)
(* A model of PinSkewerDetector (src/detect_pins_skewers.py): the pin and  *)
(* skewer detectors, the move-tactic evaluator, the position analyzer and  *)
(* the game analyzer.  The chess rules the detector consumes from the      *)
(* python-chess library (piece_at, king, pin_mask, push, is_legal,         *)
(* is_game_over, square_name) are modelled by what the library does; the   *)
(* moves played and recommended carry no promotion piece.                  *)
(***************************************************************************)
EXTENDS Integers, Sequences, FiniteSets, TLC

VARIABLES
    board,          \* the chess.Board in use: [pieces, turn]
    pc,             \* where the program is
    pins,           \* list returned by detect_pins(board)
    skewers,        \* list returned by detect_skewers(board)
    player_move,    \* analyze_position: the move actually played
    best_move,      \* analyze_position: the oracle's first answer
    opponent_best,  \* analyze_position: the oracle's second answer
    result,         \* analyze_position: the returned dict (or the raised error)
    move_number,    \* analyze_game: the full-move counter
    game_result,    \* analyze_game: the running executed/missed/allowed lists
    log,            \* analyze_game: per analysed ply, what analyze_position gave
    illegal_at,     \* analyze_game: ply of the illegal move met (0: none)
    queries         \* number of oracle queries made so far

vars == <<board, pc, pins, skewers, player_move, best_move, opponent_best,
          result, move_number, game_result, log, illegal_at, queries>>

(***************************************************************************)
(* python-chess constants and square arithmetic                            *)
(***************************************************************************)
PAWN == 1
KNIGHT == 2
BISHOP == 3
ROOK == 4
QUEEN == 5
KING == 6

WHITE == TRUE
BLACK == FALSE

\* Python's None: an absent piece, an absent dict, an absent move.
None == [none |-> TRUE]

\* chess.SQUARES: a1 = 0, b1 = 1, ..., h8 = 63
SQUARES == 0..63

square_file(square) == square % 8
square_rank(square) == square \div 8

FILE_NAMES == <<"a", "b", "c", "d", "e", "f", "g", "h">>
RANK_NAMES == <<"1", "2", "3", "4", "5", "6", "7", "8">>

\* chess.square_name: the file letter followed by the rank digit
square_name(square) ==
    FILE_NAMES[square_file(square) + 1] \o RANK_NAMES[square_rank(square) + 1]

\* chess.parse_square, the inverse of square_name
parse_square(name) == CHOOSE s \in SQUARES : square_name(s) = name

abs(x) == IF x < 0 THEN -x ELSE x

\* x // abs(x) for x # 0, and x for x = 0 (the "normalize direction" step)
Normalize(x) == IF x # 0 THEN x \div abs(x) ELSE x

Piece(piece_type, color) == [piece_type |-> piece_type, color |-> color]

\* board.piece_at(square)
piece_at(b, square) == b.pieces[square]

\* board.king(color): the highest square holding a king of that colour, or
\* -1 standing for None
king(b, color) ==
    IF \E s \in SQUARES : b.pieces[s] = Piece(KING, color)
    THEN CHOOSE s \in SQUARES :
             /\ b.pieces[s] = Piece(KING, color)
             /\ \A o \in (s + 1)..63 : b.pieces[o] # Piece(KING, color)
    ELSE -1

(***************************************************************************)
(* python-chess: lines, attacks and pin masks                              *)
(***************************************************************************)
Square(file, rank) == file + 8 * rank

max(x, y) == IF x >= y THEN x ELSE y

\* chess.square_distance: the number of king steps between two squares
square_distance(a, b) ==
    max(abs(square_file(a) - square_file(b)), abs(square_rank(a) - square_rank(b)))

OnLine(a, b) ==
    a # b /\ (square_file(a) = square_file(b) \/ square_rank(a) = square_rank(b))

OnDiagonal(a, b) ==
    a # b /\ abs(square_file(a) - square_file(b)) = abs(square_rank(a) - square_rank(b))

\* chess.between(a, b): the squares strictly between two aligned squares
between(a, b) ==
    IF OnLine(a, b) \/ OnDiagonal(a, b)
    THEN LET df == Normalize(square_file(b) - square_file(a))
             dr == Normalize(square_rank(b) - square_rank(a))
         IN  { Square(square_file(a) + k * df, square_rank(a) + k * dr) :
                   k \in 1..(square_distance(a, b) - 1) }
    ELSE {}

Empty(b, squares) == \A s \in squares : piece_at(b, s) = None

\* board.attacks(from_square) contains to_square
Attacks(b, from_square, to_square) ==
    LET piece == piece_at(b, from_square)
        df == square_file(to_square) - square_file(from_square)
        dr == square_rank(to_square) - square_rank(from_square)
    IN  /\ piece # None
        /\ from_square # to_square
        /\ CASE piece.piece_type = PAWN ->
                    abs(df) = 1 /\ dr = (IF piece.color = WHITE THEN 1 ELSE -1)
             [] piece.piece_type = KNIGHT ->
                    {abs(df), abs(dr)} = {1, 2}
             [] piece.piece_type = KING ->
                    square_distance(from_square, to_square) = 1
             [] piece.piece_type = BISHOP ->
                    OnDiagonal(from_square, to_square)
                    /\ Empty(b, between(from_square, to_square))
             [] piece.piece_type = ROOK ->
                    OnLine(from_square, to_square)
                    /\ Empty(b, between(from_square, to_square))
             [] piece.piece_type = QUEEN ->
                    (OnLine(from_square, to_square) \/ OnDiagonal(from_square, to_square))
                    /\ Empty(b, between(from_square, to_square))

\* board.is_attacked_by(color, square)
is_attacked_by(b, color, square) ==
    \E s \in SQUARES :
        /\ piece_at(b, s) # None
        /\ piece_at(b, s).color = color
        /\ Attacks(b, s, square)

\* chess.ray(a, b): the whole rank, file or diagonal through two distinct
\* aligned squares, and nothing for any other pair
ray(a, b) ==
    IF a = b THEN {}
    ELSE IF square_rank(a) = square_rank(b)
    THEN { s \in SQUARES : square_rank(s) = square_rank(a) }
    ELSE IF square_file(a) = square_file(b)
    THEN { s \in SQUARES : square_file(s) = square_file(a) }
    ELSE IF square_file(a) - square_rank(a) = square_file(b) - square_rank(b)
    THEN { s \in SQUARES : square_file(s) - square_rank(s) = square_file(a) - square_rank(a) }
    ELSE IF square_file(a) + square_rank(a) = square_file(b) + square_rank(b)
    THEN { s \in SQUARES : square_file(s) + square_rank(s) = square_file(a) + square_rank(a) }
    ELSE {}

\* The occupied squares among `squares`
Occupied(b, squares) == { s \in squares : piece_at(b, s) # None }

\* A sniper of `color` for `square`: a rook or queen on its rank or file, or a
\* bishop or queen on one of its diagonals, whatever stands between
sniper(b, color, square, s) ==
    /\ piece_at(b, s) # None
    /\ piece_at(b, s).color = color
    /\ \/ OnLine(square, s) /\ piece_at(b, s).piece_type \in {ROOK, QUEEN}
       \/ OnDiagonal(square, s) /\ piece_at(b, s).piece_type \in {BISHOP, QUEEN}

\* pin_mask, the king found on king_square: `square` lies on a rank, file or
\* diagonal of the king and is the only square, taken as occupied, between
\* the king and a sniper of the other colour
pinned_to(b, color, king_square, square) ==
    /\ OnLine(king_square, square) \/ OnDiagonal(king_square, square)
    /\ \E s \in SQUARES :
           /\ sniper(b, ~color, king_square, s)
           /\ square \in between(s, king_square)
           /\ Occupied(b, between(s, king_square)) \subseteq {square}

\* board.pin_mask(color, square): the line through the king of `color` and
\* `square` when the piece on `square` is pinned to that king; all squares
\* otherwise, and when there is no such king.  The king's own square is on
\* none of the king's lines, so the detector's call, with square the king's
\* square, returns all squares.
pin_mask(b, color, square) ==
    IF king(b, color) = -1 THEN SQUARES
    ELSE IF pinned_to(b, color, king(b, color), square)
    THEN ray(king(b, color), square)
    ELSE SQUARES

(***************************************************************************)
(* __init__: the piece values                                              *)
(***************************************************************************)
piece_values ==
    (PAWN :> 1) @@ (KNIGHT :> 3) @@ (BISHOP :> 3) @@
    (ROOK :> 5) @@ (QUEEN :> 9) @@ (KING :> 100)

(***************************************************************************)
(* Pin detector                                                            *)
(***************************************************************************)
can_piece_pin(piece_type, file_diff, rank_diff) ==
    IF piece_type = QUEEN THEN TRUE
    ELSE IF piece_type = ROOK THEN file_diff = 0 \/ rank_diff = 0
    ELSE IF piece_type = BISHOP THEN abs(file_diff) = abs(rank_diff)
    ELSE FALSE

InBoard(square) == 0 <= square /\ square < 64

\* A walk over raw square indices from `from` in steps of `step`: the number
\* of the first pass after pass `done` whose index from + k * step is outside
\* [0, 64) or holds a piece.  (Pass 64 is outside for every step but 0, and
\* with step 0 every pass stands on the occupied square it started from.)
FirstStop(b, from, step, done) ==
    LET stops(k) == ~InBoard(from + k * step) \/ piece_at(b, from + k * step) # None
    IN  CHOOSE k \in (done + 1)..64 :
            stops(k) /\ \A j \in (done + 1)..(k - 1) : ~stops(j)

\* The while loop of find_pinning_piece: current_square moves by
\* - file_diff - 8 * rank_diff until it is outside [0, 64) or holds a piece,
\* and only an opposing piece that can_piece_pin is returned.
PinSearch(b, pinned_square, file_diff, rank_diff) ==
    LET step == - file_diff - 8 * rank_diff
        current_square == pinned_square + FirstStop(b, pinned_square, step, 0) * step
        piece == piece_at(b, current_square)
    IN  IF ~InBoard(current_square) THEN None
        ELSE IF piece.color # b.turn
                /\ can_piece_pin(piece.piece_type, file_diff, rank_diff)
        THEN [piece_type |-> piece.piece_type, square |-> square_name(current_square)]
        ELSE None

find_pinning_piece(b, pinned_square, king_square) ==
    LET file_diff == Normalize(square_file(king_square) - square_file(pinned_square))
        rank_diff == Normalize(square_rank(king_square) - square_rank(pinned_square))
    IN  PinSearch(b, pinned_square, file_diff, rank_diff)

\* The body of detect_pins' loop for one square: the pins it appends, for a
\* piece of the side to move on a square of pinned_squares.
PinsAt(b, square) ==
    LET piece == piece_at(b, square)
    IN  IF /\ piece # None /\ piece.color = b.turn
           /\ square \in pin_mask(b, b.turn, king(b, b.turn))
        THEN LET pinning_piece == find_pinning_piece(b, square, king(b, b.turn))
             IN  IF pinning_piece # None
                 THEN << [type |-> "pin",
                          pinned_piece |-> piece.piece_type,
                          pinned_square |-> square_name(square),
                          pinning_piece |-> pinning_piece.piece_type,
                          pinning_square |-> pinning_piece.square,
                          target |-> "king"] >>
                 ELSE << >>
        ELSE << >>

\* for square in chess.SQUARES, over the squares first..last in ascending order
RECURSIVE PinsOver(_, _, _)
PinsOver(b, first, last) ==
    IF first = last THEN PinsAt(b, first)
    ELSE LET mid == (first + last) \div 2
         IN  PinsOver(b, first, mid) \o PinsOver(b, mid + 1, last)

\* detect_pins raises TypeError (chess.square_file(None)) when the side to
\* move has a piece but no king.
detect_pins_raises(b) ==
    /\ king(b, b.turn) = -1
    /\ \E s \in SQUARES : piece_at(b, s) # None /\ piece_at(b, s).color = b.turn

detect_pins(b) == PinsOver(b, 0, 63)

(***************************************************************************)
(* Skewer detector                                                         *)
(***************************************************************************)
sliding_pieces == {QUEEN, ROOK, BISHOP}

\* (file_diff, rank_diff) in the order find_skewers_from_piece builds them
Directions(piece_type) ==
    (IF piece_type \in {QUEEN, ROOK}
     THEN << <<0, 1>>, <<0, -1>>, <<1, 0>>, <<-1, 0>> >> ELSE << >>)
    \o
    (IF piece_type \in {QUEEN, BISHOP}
     THEN << <<1, 1>>, <<1, -1>>, <<-1, 1>>, <<-1, -1>> >> ELSE << >>)

\* The while loop of find_skewers_from_piece: current_square moves by
\* file_diff + 8 * rank_diff; leaving [0, 64) or a piece of the attacker's
\* colour ends the loop, an opposing piece is collected, and the second one
\* collected ends the loop.  The value is pieces_in_line when the loop is left.
LineWalk(b, color, piece_square, direction) ==
    LET step == direction[1] + 8 * direction[2]
        entry(square) == [square |-> square,
                          piece_type |-> piece_at(b, square).piece_type,
                          value |-> piece_values[piece_at(b, square).piece_type]]
        first == FirstStop(b, piece_square, step, 0)
        front == piece_square + first * step
    IN  IF ~InBoard(front) \/ piece_at(b, front).color = color THEN << >>
        ELSE LET back == piece_square + FirstStop(b, piece_square, step, first) * step
             IN  IF ~InBoard(back) \/ piece_at(b, back).color = color
                 THEN << entry(front) >>
                 ELSE << entry(front), entry(back) >>

\* The comparison that makes two collected pieces a skewer (line 160)
IsSkewer(front_piece, back_piece) == front_piece.value > back_piece.value

SkewersInDirection(b, piece_square, piece, direction) ==
    LET pieces_in_line == LineWalk(b, piece.color, piece_square, direction)
    IN  IF Len(pieces_in_line) = 2
           /\ IsSkewer(pieces_in_line[1], pieces_in_line[2])
        THEN << [type |-> "skewer",
                 attacking_piece |-> piece.piece_type,
                 attacking_square |-> square_name(piece_square),
                 front_target |-> pieces_in_line[1].piece_type,
                 front_square |-> square_name(pieces_in_line[1].square),
                 back_target |-> pieces_in_line[2].piece_type,
                 back_square |-> square_name(pieces_in_line[2].square)] >>
        ELSE << >>

RECURSIVE SkewersOverDirections(_, _, _, _, _)
SkewersOverDirections(b, piece_square, piece, directions, i) ==
    IF i > Len(directions) THEN << >>
    ELSE SkewersInDirection(b, piece_square, piece, directions[i])
         \o SkewersOverDirections(b, piece_square, piece, directions, i + 1)

find_skewers_from_piece(b, piece_square, piece) ==
    SkewersOverDirections(b, piece_square, piece, Directions(piece.piece_type), 1)

\* The body of detect_skewers' loop for one square: the skewers it extends by
SkewersAt(b, square) ==
    LET piece == piece_at(b, square)
    IN  IF piece # None /\ piece.color = b.turn /\ piece.piece_type \in sliding_pieces
        THEN find_skewers_from_piece(b, square, piece)
        ELSE << >>

\* for square in chess.SQUARES, over the squares first..last in ascending order
RECURSIVE SkewersOver(_, _, _)
SkewersOver(b, first, last) ==
    IF first = last THEN SkewersAt(b, first)
    ELSE LET mid == (first + last) \div 2
         IN  SkewersOver(b, first, mid) \o SkewersOver(b, mid + 1, last)

detect_skewers(b) == SkewersOver(b, 0, 63)


\* board.attackers(color, square)
attackers(b, color, square) ==
    { s \in SQUARES : /\ piece_at(b, s) # None
                      /\ piece_at(b, s).color = color
                      /\ Attacks(b, s, square) }

(***************************************************************************)
(* python-chess: moves, push and legality                                  *)
(***************************************************************************)
\* board.is_check()
is_check(b) ==
    king(b, b.turn) # -1 /\ is_attacked_by(b, ~b.turn, king(b, b.turn))

Move(from_square, to_square) == [from_square |-> from_square, to_square |-> to_square]

\* chess.Move.null(), which like None is falsy
NullMove == Move(0, 0)

\* bool(move) for an Optional[chess.Move]
Truthy(move) == move # None /\ move # NullMove

\* Board._to_chess960(move), the first statement of push: a king leaving e1 or
\* e8 for the g- or c-file square of its rank, with no rook standing there, is
\* read as the king taking the rook's corner.
to_chess960(b, move) ==
    LET from_square == move.from_square
        rank == square_rank(from_square)
        rook_on(s) == piece_at(b, s) # None /\ piece_at(b, s).piece_type = ROOK
    IN  IF /\ from_square \in {Square(4, 0), Square(4, 7)}
           /\ piece_at(b, from_square) # None
           /\ piece_at(b, from_square).piece_type = KING
        THEN IF move.to_square = Square(6, rank) /\ ~rook_on(move.to_square)
             THEN Move(from_square, Square(7, rank))
             ELSE IF move.to_square = Square(2, rank) /\ ~rook_on(move.to_square)
             THEN Move(from_square, Square(0, rank))
             ELSE move
        ELSE move

\* Board._from_chess960(move): a king leaving e1 or e8 for the corner of its
\* rank is read as the standard castling move to the g- or c-file.
from_chess960(b, move) ==
    LET from_square == move.from_square
        rank == square_rank(from_square)
    IN  IF /\ from_square \in {Square(4, 0), Square(4, 7)}
           /\ piece_at(b, from_square) # None
           /\ piece_at(b, from_square).piece_type = KING
        THEN IF move.to_square = Square(7, rank) THEN Move(from_square, Square(6, rank))
             ELSE IF move.to_square = Square(0, rank) THEN Move(from_square, Square(2, rank))
             ELSE move
        ELSE move

\* The castling rights of a board no move has been made on: the corner rooks
\* of a side whose king stands on e1 or e8
corner_rights(b, color, rank) ==
    IF piece_at(b, Square(4, rank)) = Piece(KING, color)
    THEN { s \in b.castling_rights \cap {Square(0, rank), Square(7, rank)} :
               piece_at(b, s) = Piece(ROOK, color) }
    ELSE {}

\* board.clean_castling_rights(): once a move is on the stack the rights are
\* returned as push left them
clean_castling_rights(b) ==
    IF b.stack THEN b.castling_rights
    ELSE corner_rights(b, WHITE, 0) \cup corner_rights(b, BLACK, 7)

\* push(move) fails its assertion when no piece stands on the from-square
push_raises(b, move) ==
    Truthy(move) /\ piece_at(b, to_chess960(b, move).from_square) = None

\* push: a pawn's double step, which sets the en-passant square behind it
double_step(from_square, to_square, piece_type) ==
    /\ piece_type = PAWN
    /\ \/ to_square - from_square = 16 /\ square_rank(from_square) = 1
       \/ to_square - from_square = -16 /\ square_rank(from_square) = 6

\* push: a pawn steps diagonally onto the en-passant square, which is empty
en_passant(b, from_square, to_square, piece_type) ==
    /\ piece_type = PAWN
    /\ ~double_step(from_square, to_square, piece_type)
    /\ b.ep_square # -1
    /\ to_square = b.ep_square
    /\ abs(to_square - from_square) \in {7, 9}
    /\ piece_at(b, to_square) = None

\* push: the king steps onto a piece of its own side
castling(b, from_square, to_square, piece_type) ==
    /\ piece_type = KING
    /\ from_square # to_square
    /\ piece_at(b, to_square) # None
    /\ piece_at(b, to_square).color = b.turn

\* push: the pieces once the mover has left from_square, and the pawn taken en
\* passant has left the square behind the en-passant square
lifted(b, from_square, to_square, piece_type) ==
    IF en_passant(b, from_square, to_square, piece_type)
    THEN [b.pieces EXCEPT ![from_square] = None,
                          ![b.ep_square + (IF b.turn = WHITE THEN -8 ELSE 8)] = None]
    ELSE [b.pieces EXCEPT ![from_square] = None]

\* push: the pieces after the move.  A castled king and the piece it stepped
\* onto leave the board, and a king and a rook are set on the g- and f-file
\* (or c- and d-file) squares of the mover's back rank; any other piece stands
\* on to_square in the mover's colour.
pieces_after(b, from_square, to_square, piece_type) ==
    IF castling(b, from_square, to_square, piece_type)
    THEN [lifted(b, from_square, to_square, piece_type) EXCEPT
              ![to_square] = None,
              ![Square(IF square_file(to_square) < square_file(from_square) THEN 2 ELSE 6,
                       IF b.turn = WHITE THEN 0 ELSE 7)] = Piece(KING, b.turn),
              ![Square(IF square_file(to_square) < square_file(from_square) THEN 3 ELSE 5,
                       IF b.turn = WHITE THEN 0 ELSE 7)] = Piece(ROOK, b.turn)]
    ELSE [lifted(b, from_square, to_square, piece_type) EXCEPT
              ![to_square] = Piece(piece_type, b.turn)]

\* push: the castling rights left: none on a square moved from or to, none of
\* the mover once its king has moved, none on a back rank whose king was taken
rights_after(b, from_square, to_square, piece_type, rights) ==
    { s \in rights \ {from_square, to_square} :
        /\ piece_type = KING => square_rank(s) # (IF b.turn = WHITE THEN 0 ELSE 7)
        /\ ( /\ piece_type # KING
             /\ from_square # to_square
             /\ piece_at(b, to_square) # None
             /\ piece_at(b, to_square).piece_type = KING
             /\ square_rank(to_square) = (IF b.turn = WHITE THEN 7 ELSE 0) )
           => square_rank(s) # square_rank(to_square) }

\* push, past the null move: the move of the piece on from_square
make_move(b, from_square, to_square, rights) ==
    IF piece_at(b, from_square) = None THEN b
    ELSE [pieces |-> pieces_after(b, from_square, to_square,
                                  piece_at(b, from_square).piece_type),
          turn |-> ~b.turn,
          ep_square |->
              IF double_step(from_square, to_square, piece_at(b, from_square).piece_type)
              THEN (from_square + to_square) \div 2
              ELSE -1,
          castling_rights |->
              rights_after(b, from_square, to_square,
                           piece_at(b, from_square).piece_type, rights),
          stack |-> TRUE]

\* board.push(move) on a copy.  A null move only passes the turn and clears
\* the en-passant square.  The moves carry no promotion piece.
push(b, move) ==
    IF move = NullMove
    THEN [b EXCEPT !.turn = ~b.turn, !.ep_square = -1,
                   !.castling_rights = clean_castling_rights(b), !.stack = TRUE]
    ELSE make_move(b, to_chess960(b, move).from_square, to_chess960(b, move).to_square,
                   clean_castling_rights(b))

\* board.is_castling(move): the king moves two files or more, or onto a rook
\* of its own side
is_castling(b, move) ==
    /\ piece_at(b, move.from_square) # None
    /\ piece_at(b, move.from_square).piece_type = KING
    /\ \/ abs(square_file(move.from_square) - square_file(move.to_square)) > 1
       \/ piece_at(b, move.to_square) = Piece(ROOK, b.turn)

\* generate_castling_moves, for the king and one corner rook: the squares the
\* king and the rook cross and land on are empty, and the king is not attacked
\* where it stands, crosses or lands (the rook then standing on its new square)
castling_possible(b, king_square, rook, king_to, rook_to) ==
    /\ Empty(b, (between(king_square, king_to) \cup between(rook, rook_to)
                    \cup {king_to, rook_to}) \ {king_square, rook})
    /\ \A s \in between(king_square, king_to) \cup {king_square} :
           ~is_attacked_by([b EXCEPT !.pieces[king_square] = None], ~b.turn, s)
    /\ ~is_attacked_by([b EXCEPT !.pieces[king_square] = None,
                                 !.pieces[rook] = None,
                                 !.pieces[rook_to] = Piece(ROOK, b.turn)],
                       ~b.turn, king_to)

\* The lowest square of the mover's back rank holding a king of the mover, or
\* -1: the king generate_castling_moves castles with
castling_king(b) ==
    IF \E s \in SQUARES : /\ square_rank(s) = (IF b.turn = WHITE THEN 0 ELSE 7)
                          /\ b.pieces[s] = Piece(KING, b.turn)
    THEN CHOOSE s \in SQUARES :
             /\ square_rank(s) = (IF b.turn = WHITE THEN 0 ELSE 7)
             /\ b.pieces[s] = Piece(KING, b.turn)
             /\ \A o \in 0..(s - 1) :
                    ~(/\ square_rank(o) = square_rank(s)
                      /\ b.pieces[o] = Piece(KING, b.turn))
    ELSE -1

\* board.generate_castling_moves(): one move for each rook square with castling
\* rights on the mover's back rank with which castling is possible
castling_moves(b) ==
    IF castling_king(b) = -1 THEN {}
    ELSE { from_chess960(b, Move(castling_king(b), rook)) :
               rook \in { c \in clean_castling_rights(b) :
                   /\ square_rank(c) = square_rank(castling_king(b))
                   /\ castling_possible(b, castling_king(b), c,
                          Square(IF c < castling_king(b) THEN 2 ELSE 6, square_rank(c)),
                          Square(IF c < castling_king(b) THEN 3 ELSE 5, square_rank(c))) } }

\* board.generate_pseudo_legal_ep(): a pawn of the mover on its fifth rank
\* steps diagonally onto the en-passant square, which is empty
pseudo_legal_ep(b, from_square, to_square) ==
    /\ b.ep_square \notin {-1, 0}
    /\ to_square = b.ep_square
    /\ piece_at(b, to_square) = None
    /\ piece_at(b, from_square) = Piece(PAWN, b.turn)
    /\ Attacks(b, from_square, to_square)
    /\ square_rank(from_square) = (IF b.turn = WHITE THEN 4 ELSE 3)

\* The pawn part of board.generate_pseudo_legal_moves, the promotion piece
\* left aside: a capture, a single step, a double step onto the third or
\* fourth rank counted from the mover's side, or an en-passant capture
pawn_move(b, from_square, to_square) ==
    LET target == piece_at(b, to_square)
        up == IF b.turn = WHITE THEN 8 ELSE -8
    IN  \/ /\ Attacks(b, from_square, to_square)
           /\ target # None
           /\ target.color # b.turn
        \/ to_square = from_square + up /\ target = None
        \/ /\ to_square = from_square + 2 * up
           /\ target = None
           /\ piece_at(b, from_square + up) = None
           /\ square_rank(to_square) \in (IF b.turn = WHITE THEN {2, 3} ELSE {5, 4})
        \/ pseudo_legal_ep(b, from_square, to_square)

\* board.is_pseudo_legal(move) for a move without promotion piece
is_pseudo_legal(b, move) ==
    LET piece == piece_at(b, move.from_square)
        target == piece_at(b, move.to_square)
    IN  /\ Truthy(move)
        /\ piece # None
        /\ piece.color = b.turn
        /\ \/ piece.piece_type = KING /\ from_chess960(b, move) \in castling_moves(b)
           \/ /\ ~(target # None /\ target.color = b.turn)
              /\ IF piece.piece_type = PAWN
                 THEN /\ square_rank(move.to_square) \notin {0, 7}
                      /\ pawn_move(b, move.from_square, move.to_square)
                 ELSE Attacks(b, move.from_square, move.to_square)

\* board.is_en_passant(move)
is_en_passant(b, move) ==
    /\ piece_at(b, move.from_square) # None
    /\ en_passant(b, move.from_square, move.to_square,
                  piece_at(b, move.from_square).piece_type)

\* board._slider_blockers(king): the mover's pieces that stand alone between
\* the king and a sniper of the other side
slider_blockers(b, king_square) ==
    { square \in SQUARES :
        /\ piece_at(b, square) # None
        /\ piece_at(b, square).color = b.turn
        /\ \E s \in SQUARES :
               /\ sniper(b, ~b.turn, king_square, s)
               /\ Occupied(b, between(king_square, s)) = {square} }

\* board._ep_skewered(king, capturer): with the capturing pawn and the pawn
\* taken en passant off the board and the en-passant square occupied, a rook
\* or queen of the other side looks at the king along its rank, or a bishop or
\* queen along a diagonal
ep_skewered(b, king_square, capturer) ==
    \E s \in SQUARES :
        /\ sniper(b, ~b.turn, king_square, s)
        /\ square_file(s) # square_file(king_square)
        /\ \A o \in between(king_square, s) :
               /\ o # b.ep_square
               /\ \/ piece_at(b, o) = None
                  \/ o \in {capturer, b.ep_square + (IF b.turn = WHITE THEN -8 ELSE 8)}

\* board._is_safe(king, blockers, move): a move of that king is safe when it
\* castles or lands on a square not attacked as the board stands; an
\* en-passant capture when it keeps to the capturer's pin mask and is not
\* skewered; any other move when its piece is no slider blocker or moves along
\* a line through the king
is_safe(b, king_square, move) ==
    IF move.from_square = king_square
    THEN is_castling(b, move) \/ ~is_attacked_by(b, ~b.turn, move.to_square)
    ELSE IF is_en_passant(b, move)
    THEN /\ move.to_square \in pin_mask(b, b.turn, move.from_square)
         /\ ~ep_skewered(b, king_square, move.from_square)
    ELSE \/ move.from_square \notin slider_blockers(b, king_square)
         \/ king_square \in ray(move.from_square, move.to_square)

\* generate_pseudo_legal_moves(~kings & from, to): a move of a piece of the
\* mover that is no king; a pawn reaching the last rank promotes, no other
\* move does
generated(b, move, promoted) ==
    /\ piece_at(b, move.from_square) # None
    /\ piece_at(b, move.from_square).color = b.turn
    /\ piece_at(b, move.from_square).piece_type # KING
    /\ ~(/\ piece_at(b, move.to_square) # None
         /\ piece_at(b, move.to_square).color = b.turn)
    /\ IF piece_at(b, move.from_square).piece_type = PAWN
       THEN /\ pawn_move(b, move.from_square, move.to_square)
            /\ promoted <=> square_rank(move.to_square) \in {0, 7}
       ELSE ~promoted /\ Attacks(b, move.from_square, move.to_square)

\* The move is one board._generate_evasions(king, checkers) yields: the king
\* steps to a square of no checking slider's line (the slider's own square
\* apart), or, under a single check, a piece that is no king takes the checker
\* or lands between it and the king, or a pawn takes en passant the pawn that
\* gives check
evasion(b, king_square, checkers, move, promoted) ==
    \/ /\ move.from_square = king_square
       /\ ~promoted
       /\ square_distance(king_square, move.to_square) = 1
       /\ ~(/\ piece_at(b, move.to_square) # None
            /\ piece_at(b, move.to_square).color = b.turn)
       /\ \A c \in checkers :
              piece_at(b, c).piece_type \in sliding_pieces =>
                  (move.to_square = c \/ move.to_square \notin ray(king_square, c))
    \/ /\ Cardinality(checkers) = 1
       /\ \E c \in checkers :
              \/ /\ move.to_square \in between(king_square, c) \cup {c}
                 /\ generated(b, move, promoted)
              \/ /\ ~promoted
                 /\ b.ep_square \notin between(king_square, c) \cup {c}
                 /\ b.ep_square + (IF b.turn = WHITE THEN -8 ELSE 8) = c
                 /\ pseudo_legal_ep(b, move.from_square, move.to_square)

\* board.is_into_check(move), the move carrying a promotion piece or not: the
\* mover has a king, taken where it stands before the move, and either that
\* king is in check and the move is no evasion, or the move is not safe
into_check(b, move, promoted) ==
    /\ king(b, b.turn) # -1
    /\ \/ /\ attackers(b, ~b.turn, king(b, b.turn)) # {}
          /\ ~evasion(b, king(b, b.turn), attackers(b, ~b.turn, king(b, b.turn)),
                      move, promoted)
       \/ ~is_safe(b, king(b, b.turn), move)

\* board.is_into_check(move) for a move without promotion piece
is_into_check(b, move) == into_check(b, move, FALSE)

\* board.is_legal(move)
is_legal(b, move) == is_pseudo_legal(b, move) /\ ~is_into_check(b, move)

\* One of the four promotions of the pawn on from_square to to_square is legal
is_legal_promotion(b, from_square, to_square) ==
    LET piece == piece_at(b, from_square)
        target == piece_at(b, to_square)
    IN  /\ piece # None
        /\ piece = Piece(PAWN, b.turn)
        /\ square_rank(to_square) \in {0, 7}
        /\ ~(target # None /\ target.color = b.turn)
        /\ pawn_move(b, from_square, to_square)
        /\ ~into_check(b, Move(from_square, to_square), TRUE)

\* any(board.legal_moves)
HasLegalMove(b) ==
    \E f \in SQUARES :
        /\ piece_at(b, f) # None
        /\ piece_at(b, f).color = b.turn
        /\ \E t \in SQUARES :
               is_legal(b, Move(f, t)) \/ is_legal_promotion(b, f, t)

SquaresOf(b, color, types) ==
    { s \in SQUARES : /\ piece_at(b, s) # None
                      /\ piece_at(b, s).color = color
                      /\ piece_at(b, s).piece_type \in types }

\* board.has_insufficient_material(color)
has_insufficient_material(b, color) ==
    LET all == {PAWN, KNIGHT, BISHOP, ROOK, QUEEN, KING}
        bishops == SquaresOf(b, WHITE, {BISHOP}) \cup SquaresOf(b, BLACK, {BISHOP})
        dark(s) == (square_file(s) + square_rank(s)) % 2 = 0
        both == {WHITE, BLACK}
    IN  IF SquaresOf(b, color, {PAWN, ROOK, QUEEN}) # {} THEN FALSE
        ELSE IF SquaresOf(b, color, {KNIGHT}) # {}
        THEN /\ Cardinality(SquaresOf(b, color, all)) <= 2
             /\ SquaresOf(b, ~color, {PAWN, KNIGHT, BISHOP, ROOK}) = {}
        ELSE IF SquaresOf(b, color, {BISHOP}) # {}
        THEN /\ (\A s \in bishops : dark(s)) \/ (\A s \in bishops : ~dark(s))
             /\ \A c \in both : SquaresOf(b, c, {PAWN, KNIGHT}) = {}
        ELSE TRUE

\* board.is_game_over(): checkmate, stalemate or insufficient material (the
\* 75-move and fivefold-repetition rules need more plies than a replay here has)
is_game_over(b) ==
    \/ ~HasLegalMove(b)
    \/ has_insufficient_material(b, WHITE) /\ has_insufficient_material(b, BLACK)

(***************************************************************************)
(* Positions                                                               *)
(***************************************************************************)
EmptyPieces == [s \in SQUARES |-> None]

\* The pieces of a list of <<square name, piece>> placements
RECURSIVE Placed(_, _)
Placed(placements, i) ==
    IF i > Len(placements) THEN EmptyPieces
    ELSE [Placed(placements, i + 1) EXCEPT
              ![parse_square(placements[i][1])] = placements[i][2]]

\* A position set up from a FEN with no castling rights and no en-passant square
BoardOf(placements, turn) ==
    [pieces |-> Placed(placements, 1), turn |-> turn,
     ep_square |-> -1, castling_rights |-> {}, stack |-> FALSE]

BackRank == <<ROOK, KNIGHT, BISHOP, QUEEN, KING, BISHOP, KNIGHT, ROOK>>

\* chess.Board(): the standard starting position, White to move
StartingBoard ==
    [pieces |-> [s \in SQUARES |->
                    CASE square_rank(s) = 0 -> Piece(BackRank[square_file(s) + 1], WHITE)
                      [] square_rank(s) = 1 -> Piece(PAWN, WHITE)
                      [] square_rank(s) = 6 -> Piece(PAWN, BLACK)
                      [] square_rank(s) = 7 -> Piece(BackRank[square_file(s) + 1], BLACK)
                      [] OTHER -> None],
     turn |-> WHITE,
     ep_square |-> -1,
     castling_rights |-> {Square(0, 0), Square(7, 0), Square(0, 7), Square(7, 7)},
     stack |-> FALSE]

\* A position a game can be in: one king a side, no pawn on a back rank, and
\* the side that has just moved not left in check.
ValidPosition(b) ==
    /\ Cardinality(SquaresOf(b, WHITE, {KING})) = 1
    /\ Cardinality(SquaresOf(b, BLACK, {KING})) = 1
    /\ \A s \in SquaresOf(b, WHITE, {PAWN}) \cup SquaresOf(b, BLACK, {PAWN}) :
           square_rank(s) \notin {0, 7}
    /\ ~is_attacked_by(b, b.turn, king(b, ~b.turn))

(***************************************************************************)
(* Detector runs: detect_pins and detect_skewers applied to a position     *)
(***************************************************************************)
SliderSquares == {"e8", "e5", "b3", "a4", "h4", "c3", "h1", "a2", "g2", "d1", "b4", "h5"}
BlockerSquares == {"e3", "g1", "c2"}
FrontSquares == {"a2", "d4", "e5", "b7", "h3"}
BackSquares == {"b2", "d6", "g7", "f6", "a4"}

\* The side to move keeps king, knight and rook; the other side a king and a
\* queen, rook or bishop.
PinBoards ==
    { BoardOf(<< <<"e1", Piece(KING, turn)>>, <<"a8", Piece(KING, ~turn)>>,
                 <<r, Piece(ROOK, turn)>>, <<q, Piece(t, ~turn)>>,
                 <<square_name(n), Piece(KNIGHT, turn)>> >>, turn) :
        turn \in BOOLEAN, n \in SQUARES, r \in BlockerSquares,
        q \in SliderSquares, t \in sliding_pieces }

\* The side to move keeps a king and a queen, rook or bishop; the other side
\* a king and two more pieces.
SkewerBoards ==
    { BoardOf(<< <<"e1", Piece(KING, WHITE)>>, <<"g8", Piece(KING, BLACK)>>,
                 <<f, Piece(ft, BLACK)>>, <<k, Piece(bt, BLACK)>>,
                 <<square_name(a), Piece(t, WHITE)>> >>, WHITE) :
        a \in SQUARES, t \in sliding_pieces,
        f \in FrontSquares, ft \in {QUEEN, ROOK},
        k \in BackSquares, bt \in {ROOK, KNIGHT} }

PieceCount(b) == Cardinality({ s \in SQUARES : piece_at(b, s) # None })

DetectBoards ==
    { b \in PinBoards \cup SkewerBoards : PieceCount(b) = 5 /\ ValidPosition(b) }

EmptyResult == [executed |-> << >>, missed |-> << >>, allowed |-> << >>]

\* The variables no detector run touches
Idle ==
    /\ player_move = None /\ best_move = None /\ opponent_best = None
    /\ result = None /\ move_number = 1 /\ game_result = EmptyResult
    /\ log = << >> /\ illegal_at = 0 /\ queries = 0

InitDetect ==
    /\ board \in DetectBoards
    /\ pc = "detect_pins"
    /\ pins = << >>
    /\ skewers = << >>
    /\ Idle

DetectPins ==
    /\ pc = "detect_pins"
    /\ ~detect_pins_raises(board)
    /\ pins' = detect_pins(board)
    /\ pc' = "detect_skewers"
    /\ UNCHANGED <<board, skewers, player_move, best_move, opponent_best,
                   result, move_number, game_result, log, illegal_at, queries>>

DetectSkewers ==
    /\ pc = "detect_skewers"
    /\ skewers' = detect_skewers(board)
    /\ pc' = "detected"
    /\ UNCHANGED <<board, pins, player_move, best_move, opponent_best,
                   result, move_number, game_result, log, illegal_at, queries>>

NextDetect == DetectPins \/ DetectSkewers

SpecDetect == InitDetect /\ [][NextDetect]_vars

(***************************************************************************)
(* Move-tactic evaluator, oracle and position analyzer                     *)
(***************************************************************************)
\* What analyze_position leaves behind when an exception escapes it
Raised == [raised |-> TRUE]

\* move_creates_pin_or_skewer raises: push has no move to read (None), or no
\* piece to move, or detect_pins finds no king on the copy with the move made
move_creates_raises(b, move) ==
    move = None \/ push_raises(b, move) \/ detect_pins_raises(push(b, move))

move_creates_pin_or_skewer(b, move) ==
    LET board_copy == push(b, move)
    IN  detect_pins(board_copy) \o detect_skewers(board_copy)

\* chess.Move.from_uci, the two square names given apart
Uci(from_name, to_name) == Move(parse_square(from_name), parse_square(to_name))

\* The moves the engine is taken to recommend, where legal
EngineMoves ==
    { Uci("e2", "e4"), Uci("g1", "f3"), Uci("e7", "e5"), Uci("d7", "d5"),
      Uci("f1", "b5"), Uci("g1", "h1"), Uci("a7", "a5"), Uci("a8", "a4") }

\* get_best_move: the first move of the engine's principal variation, or None
\* when the engine gives none or fails (the bare except)
get_best_move(b) == {None} \cup { mv \in EngineMoves : is_legal(b, mv) }

\* The second query of analyze_position is made only when the game goes on.
SecondQuery(b, move) == ~is_game_over(push(b, move))

\* The first recommendation's tactics are computed, and raise
best_move_raises(b, move, best) ==
    Truthy(best) /\ best # move /\ move_creates_raises(b, best)

\* What the second query can answer, when analyze_position gets to make it
SecondAnswers(b, move, best) ==
    IF /\ Truthy(move)
       /\ ~move_creates_raises(b, move)
       /\ ~best_move_raises(b, move, best)
       /\ SecondQuery(b, move)
    THEN get_best_move(push(b, move))
    ELSE {None}

\* analyze_position lets an exception of the evaluator escape
analyze_position_raises(b, move, best, opponent) ==
    /\ Truthy(move)
    /\ \/ move_creates_raises(b, move)
       \/ best_move_raises(b, move, best)
       \/ /\ SecondQuery(b, move)
          /\ Truthy(opponent)
          /\ move_creates_raises(push(b, move), opponent)

\* The number of oracle queries analyze_position makes before it returns or
\* raises: none without a played move, the first before the played move's
\* tactics are computed, the second only once those and the recommendation's
\* tactics have been computed and the game is not over.
analyze_position_queries(b, move, best) ==
    IF ~Truthy(move) THEN 0
    ELSE IF move_creates_raises(b, move) \/ best_move_raises(b, move, best) THEN 1
    ELSE IF SecondQuery(b, move) THEN 2
    ELSE 1

\* analyze_position past its first return: both queries made, three lists filled
AnalyzeMove(b, move, best, opponent) ==
    IF analyze_position_raises(b, move, best, opponent) THEN Raised
    ELSE [executed |-> move_creates_pin_or_skewer(b, move),
          missed |-> IF Truthy(best) /\ best # move
                     THEN move_creates_pin_or_skewer(b, best) ELSE << >>,
          allowed |-> IF SecondQuery(b, move) /\ Truthy(opponent)
                      THEN move_creates_pin_or_skewer(push(b, move), opponent)
                      ELSE << >>]

\* analyze_position with the played move's tactics computed only under a
\* recommendation
analyze_position_nested(b, move, best, opponent) ==
    IF ~Truthy(move) THEN [executed |-> << >>, missed |-> << >>, allowed |-> << >>]
    ELSE [executed |-> IF Truthy(best) THEN move_creates_pin_or_skewer(b, move)
                       ELSE << >>,
          missed |-> IF Truthy(best) /\ best # move
                     THEN move_creates_pin_or_skewer(b, best) ELSE << >>,
          allowed |-> IF SecondQuery(b, move) /\ Truthy(opponent)
                      THEN move_creates_pin_or_skewer(push(b, move), opponent)
                      ELSE << >>]

\* analyze_position(board, player_move), with the oracle's two answers
analyze_position(b, move, best, opponent) ==
    IF ~Truthy(move) THEN [executed |-> << >>, missed |-> << >>, allowed |-> << >>]
    ELSE AnalyzeMove(b, move, best, opponent)

(***************************************************************************)
(* Position analyses: analyze_position applied to a position and a move    *)
(***************************************************************************)
\* White to move; once White has moved, Black's rook on a8 looks down the
\* a-file at White's queen and rook.
SkewerSetup ==
    BoardOf(<< <<"g1", Piece(KING, WHITE)>>, <<"a4", Piece(QUEEN, WHITE)>>,
               <<"a2", Piece(ROOK, WHITE)>>, <<"g8", Piece(KING, BLACK)>>,
               <<"a8", Piece(ROOK, BLACK)>> >>, WHITE)

\* White to move; Bf1-b5 pins the knight on c6 against the king on e8.
PinSetup ==
    BoardOf(<< <<"g1", Piece(KING, WHITE)>>, <<"f1", Piece(BISHOP, WHITE)>>,
               <<"e8", Piece(KING, BLACK)>>, <<"c6", Piece(KNIGHT, BLACK)>>,
               <<"h7", Piece(PAWN, BLACK)>> >>, WHITE)

\* Black to move (a game set up from a FEN header): White's rook on h1 looks
\* up the h-file at Black's queen and rook, and Bf1-b5 would pin the knight.
BlackSetup ==
    BoardOf(<< <<"g1", Piece(KING, WHITE)>>, <<"f1", Piece(BISHOP, WHITE)>>,
               <<"h1", Piece(ROOK, WHITE)>>,
               <<"e8", Piece(KING, BLACK)>>, <<"c6", Piece(KNIGHT, BLACK)>>,
               <<"h4", Piece(QUEEN, BLACK)>>, <<"h6", Piece(ROOK, BLACK)>>,
               <<"a7", Piece(PAWN, BLACK)>>, <<"e7", Piece(PAWN, BLACK)>> >>, BLACK)

PositionBoards == {StartingBoard, SkewerSetup, PinSetup, BlackSetup}

TargetSquares == {"e4", "e5", "f3", "b5", "h1", "e8", "g8", "a5", "d6"}

\* The played moves tried on a position: no move, the null move, and every
\* move of a piece of the side to move to a target square, legal or not
PlayedMoves(b) ==
    {None, NullMove} \cup
    { Move(f, parse_square(t)) :
          f \in { s \in SQUARES : piece_at(b, s) # None /\ piece_at(b, s).color = b.turn },
          t \in TargetSquares }

InitPosition ==
    /\ board \in PositionBoards
    /\ pc = "analyze_position"
    /\ pins = << >> /\ skewers = << >>
    /\ player_move = None /\ best_move = None /\ opponent_best = None
    /\ result = None /\ move_number = 1 /\ game_result = EmptyResult
    /\ log = << >> /\ illegal_at = 0 /\ queries = 0

AnalyzePosition(move, best, opponent) ==
    /\ player_move' = move
    /\ best_move' = best
    /\ opponent_best' = opponent
    /\ result' = analyze_position(board, move, best, opponent)
    /\ queries' = queries + analyze_position_queries(board, move, best)
    /\ pc' = "analyzed"
    /\ UNCHANGED <<board, pins, skewers, move_number, game_result, log, illegal_at>>

NextPosition ==
    /\ pc = "analyze_position"
    /\ \E move \in PlayedMoves(board) :
           \E best \in (IF Truthy(move) THEN get_best_move(board) ELSE {None}) :
               \E opponent \in SecondAnswers(board, move, best) :
                   AnalyzePosition(move, best, opponent)

SpecPosition == InitPosition /\ [][NextPosition]_vars

(***************************************************************************)
(* Game replay: analyze_game                                               *)
(***************************************************************************)
\* The longest mainline replayed
MaxPly == 3

GameBoards == {StartingBoard, BlackSetup}

\* The moves a mainline is made of: the engine's, and four more that are
\* illegal wherever they are met
GameMoves ==
    EngineMoves \cup
    { Uci("e2", "e5"), Uci("e7", "d6"), Uci("d1", "e8"), NullMove }

Categories == {"executed", "missed", "allowed"}

\* tactic['move_number'] = move_number; tactic['color'] = 'white' if board.turn else 'black'
Tag(tactic, number, turn) ==
    tactic @@ [move_number |-> number,
               color |-> IF turn THEN "white" ELSE "black"]

TagAll(tactics, number, turn) ==
    [i \in 1..Len(tactics) |-> Tag(tactics[i], number, turn)]

\* if board.turn: move_number += 1, asked of the board with the move made, as
\* it would be with the test turned round
NextMoveNumberAfterWhite(after, number) ==
    IF ~after.turn THEN number + 1 ELSE number

NextMoveNumber(after, number) ==
    IF after.turn THEN number + 1 ELSE number

InitGame ==
    /\ board \in GameBoards
    /\ pc = "replay"
    /\ pins = << >> /\ skewers = << >>
    /\ player_move = None /\ best_move = None /\ opponent_best = None
    /\ result = None /\ move_number = 1 /\ game_result = EmptyResult
    /\ log = << >> /\ illegal_at = 0 /\ queries = 0

\* The body of the loop for a legal move, given what analyze_position returned
\* and the number of queries it made: tag and append the records, push the
\* move, count the full move; an exception of analyze_position ends the replay.
GameRecord(move, position_result, asked) ==
    /\ queries' = queries + asked
    /\ IF position_result = Raised
       THEN /\ pc' = "raised"
            /\ UNCHANGED <<board, move_number, game_result, log>>
       ELSE /\ game_result' =
                   [category \in Categories |->
                       game_result[category]
                       \o TagAll(position_result[category], move_number, board.turn)]
            /\ board' = push(board, move)
            /\ move_number' = NextMoveNumber(board', move_number)
            /\ log' = Append(log, [turn |-> board.turn,
                                   position_result |-> position_result,
                                   queries |-> asked])
            /\ pc' = "replay"

\* One pass of the loop over game.mainline_moves() with a legal move
GameStep(move, best, opponent) ==
    /\ pc = "replay"
    /\ Len(log) < MaxPly
    /\ is_legal(board, move)
    /\ GameRecord(move, analyze_position(board, move, best, opponent),
                  analyze_position_queries(board, move, best))
    /\ UNCHANGED <<pins, skewers, player_move, best_move, opponent_best, result,
                   illegal_at>>

\* The loop over the mainline going on past an illegal move
GameIllegalSkipped(move) ==
    /\ pc = "replay"
    /\ Len(log) < MaxPly
    /\ ~is_legal(board, move)
    /\ illegal_at' = Len(log) + 1
    /\ UNCHANGED <<board, pc, pins, skewers, player_move, best_move, opponent_best,
                   result, move_number, game_result, log, queries>>

\* The pass of the loop that meets an illegal move: break, and return
GameIllegal(move) ==
    /\ pc = "replay"
    /\ Len(log) < MaxPly
    /\ ~is_legal(board, move)
    /\ illegal_at' = Len(log) + 1
    /\ pc' = "done"
    /\ UNCHANGED <<board, pins, skewers, player_move, best_move, opponent_best,
                   result, move_number, game_result, log, queries>>

\* The mainline is exhausted: return game_result
GameEnd ==
    /\ pc = "replay"
    /\ pc' = "done"
    /\ UNCHANGED <<board, pins, skewers, player_move, best_move, opponent_best,
                   result, move_number, game_result, log, illegal_at, queries>>

NextGame ==
    \/ /\ pc = "replay"
       /\ \E move \in GameMoves :
              /\ is_legal(board, move)
              /\ \E best \in get_best_move(board) :
                     \E opponent \in SecondAnswers(board, move, best) :
                         GameStep(move, best, opponent)
    \/ \E move \in GameMoves : GameIllegal(move)
    \/ GameEnd

Spec == InitGame /\ [][NextGame]_vars

(***************************************************************************)
(* Properties                                                              *)
(***************************************************************************)
Pins(list) == { i \in DOMAIN list : list[i].type = "pin" }
Skewers(list) == { i \in DOMAIN list : list[i].type = "skewer" }

\* C1: every Skewer detect_skewers reports has a back target worth more than
\* its front target (never a front target worth as much or more).
C1_BackOutvaluesFront ==
    \A i \in Skewers(skewers) :
        piece_values[skewers[i].back_target] > piece_values[skewers[i].front_target]

\* Removing the piece of the side to move on `pinned` would leave that side's
\* king attacked by the opposing piece on `pinning`, along the line through
\* pinning, pinned and the king.
ExposesKing(b, pinned, pinning) ==
    LET removed == [b EXCEPT !.pieces[pinned] = None]
    IN  /\ piece_at(b, pinned) # None
        /\ piece_at(b, pinned).color = b.turn
        /\ piece_at(b, pinning) # None
        /\ piece_at(b, pinning).color # b.turn
        /\ pinned \in between(king(b, b.turn), pinning)
        /\ Attacks(removed, pinning, king(b, b.turn))

ReportedPin(list, pinned, pinning) ==
    \E i \in Pins(list) :
        /\ list[i].pinned_square = square_name(pinned)
        /\ list[i].pinning_square = square_name(pinning)

\* C2: detect_pins reports a Pin with pinned square p and pinning square q
\* if and only if removing the piece on p would put the king of the side to
\* move in check from the piece on q along the line through q, p and the king.
C2_PinIffKingExposed ==
    pc \in {"detect_skewers", "detected"} =>
        \A p \in SQUARES, q \in SQUARES :
            ReportedPin(pins, p, q) <=> ExposesKing(board, p, q)

\* C3: every Skewer detect_skewers reports has attacker, front and back on one
\* rank, file or diagonal in that order, with nothing else between them (so
\* the walk never ran over a board edge onto another rank or file).
C3_SkewerOnOneLine ==
    \A i \in Skewers(skewers) :
        LET attacker == parse_square(skewers[i].attacking_square)
            front == parse_square(skewers[i].front_square)
            back == parse_square(skewers[i].back_square)
        IN  /\ front \in between(attacker, back)
            /\ Empty(board, between(attacker, back) \ {front})

\* C10: no Pin detect_pins reports has a piece on a square between the king
\* and the pinned square.
C10_NothingBetweenKingAndPinned ==
    \A i \in Pins(pins) :
        Empty(board, between(king(board, board.turn),
                             parse_square(pins[i].pinned_square)))

ColorAt(b, name) == piece_at(b, parse_square(name)).color

\* C4: every tactic move_creates_pin_or_skewer returns for a legal move is the
\* mover's against the opponent: a Skewer's attacker is the mover's and its
\* targets the opponent's, a Pin's pinning piece is the mover's and its pinned
\* piece the opponent's.
C4_TacticsAreTheMovers ==
    (pc = "analyzed" /\ is_legal(board, player_move)) =>
        LET after == push(board, player_move)
            tactics == move_creates_pin_or_skewer(board, player_move)
        IN  /\ \A i \in Skewers(tactics) :
                   /\ ColorAt(after, tactics[i].attacking_square) = board.turn
                   /\ ColorAt(after, tactics[i].front_square) # board.turn
                   /\ ColorAt(after, tactics[i].back_square) # board.turn
            /\ \A i \in Pins(tactics) :
                   /\ ColorAt(after, tactics[i].pinning_square) = board.turn
                   /\ ColorAt(after, tactics[i].pinned_square) # board.turn

\* C5: analysing the starting position with 1. e4 played gives empty executed,
\* missed and allowed lists, whatever the oracle recommends.
C5_StartE4AllEmpty ==
    (pc = "analyzed" /\ board = StartingBoard /\ player_move = Uci("e2", "e4")) =>
        result = EmptyResult

\* C6: a played move that is not legal on the position gives empty executed,
\* missed and allowed lists, and no error.
C6_IllegalMoveGivesEmpty ==
    (pc = "analyzed" /\ ~is_legal(board, player_move)) => result = EmptyResult

RECURSIVE Returned(_, _)
Returned(entries, category) ==
    IF entries = << >> THEN << >>
    ELSE Returned(SubSeq(entries, 1, Len(entries) - 1), category)
         \o entries[Len(entries)].position_result[category]

RECURSIVE QueriesOf(_)
QueriesOf(entries) ==
    IF entries = << >> THEN 0
    ELSE QueriesOf(SubSeq(entries, 1, Len(entries) - 1)) + entries[Len(entries)].queries

Untagged(tactic) == [f \in (DOMAIN tactic) \ {"move_number", "color"} |-> tactic[f]]

\* C7: once analyze_game has met an illegal move at ply k it has returned, its
\* result holds exactly the records of plies 1..k-1 in ply order, and nothing
\* from ply k on has been analysed or asked of the oracle.
C7_IllegalMoveEndsReplay ==
    illegal_at # 0 =>
        /\ pc = "done"
        /\ Len(log) = illegal_at - 1
        /\ queries = QueriesOf(log)
        /\ \A category \in Categories :
               [i \in DOMAIN game_result[category] |->
                   Untagged(game_result[category][i])] = Returned(log, category)

C7_IllegalAfterRecords ==
    illegal_at > 1 /\ pc = "done" /\ Len(game_result.executed) > 0

\* The full-move number of ply i: one more than the Black plies before it
FullMove(entries, i) ==
    1 + Cardinality({ j \in 1..(i - 1) : entries[j].turn = BLACK })

\* The <<move_number, color>> tags the records of the logged plies should carry
RECURSIVE ExpectedTags(_, _)
ExpectedTags(entries, category) ==
    IF entries = << >> THEN << >>
    ELSE LET i == Len(entries)
         IN  ExpectedTags(SubSeq(entries, 1, i - 1), category)
             \o [j \in DOMAIN entries[i].position_result[category] |->
                    << FullMove(entries, i),
                       IF entries[i].turn = WHITE THEN "white" ELSE "black" >>]

\* C9: at every point of the replay each record carries the colour of the side
\* that made its ply's move and the 1-based full-move number of that ply, the
\* counter being 1 plus the number of Black moves made so far.
C9_RecordsCarryMoverAndFullMove ==
    /\ move_number = FullMove(log, Len(log) + 1)
    /\ \A category \in Categories :
           [i \in DOMAIN game_result[category] |->
               << game_result[category][i].move_number,
                  game_result[category][i].color >>] = ExpectedTags(log, category)

C9_BothColoursSameFullMove ==
    \E i, j, k \in DOMAIN game_result.executed :
        /\ game_result.executed[i].color = "white"
        /\ game_result.executed[j].color = "black"
        /\ game_result.executed[i].move_number = game_result.executed[j].move_number
        /\ game_result.executed[k].move_number = 2

====
